---- MODULE Spec2Model ----
(***************************************************************************)
(* Model of the telegram-mirror-bot mirroring pipeline:                    *)
(*   link_rules.py  replace_links_in_html (anchor pass, raw-URL pass)      *)
(*   storage.py     channels, mappings and link_rules tables               *)
(*   config.py      ADMIN_IDS                                              *)
(*   bot.py         admin commands, get_rules, mirror_to_dests,            *)
(*                  on_channel_post, on_edited_channel_post                *)
(*                                                                         *)
(* Markup is a sequence of tokens, each token standing for a fixed piece   *)
(* of text:                                                                *)
(*   "O"  <a href="        "Q"  ">         "E"  </a>                       *)
(*   "S"  http://          "_"  one blank                                  *)
(*   "a" "b" "c" "n" "m"  words (a host name or a word of text)            *)
(*   "U"  the marker that heads an edited text post                        *)
(*   "A"  the word "a" written in upper case                               *)
(* Patterns and replacement templates are token sequences too; "("  is an  *)
(* unbalanced parenthesis (the pattern does not compile), "\\9" an invalid *)
(* group reference and "\\g<x>" a reference to an unknown group name.      *)
(***************************************************************************)
EXTENDS Integers, Sequences, FiniteSets

VARIABLES channels, mappings, link_rules, rule_seq, ADMIN_IDS, cmd, task, rw

vars == <<channels, mappings, link_rules, rule_seq, ADMIN_IDS, cmd, task, rw>>

Range(s) == {s[i] : i \in 1..Len(s)}

\* Python's None, as a value no markup, pattern or template equals
None == <<"None">>

-----------------------------------------------------------------------------
(* Results of calls that may raise *)

Ok(v) == [exc |-> "none", val |-> v]

Raise(e) == [exc |-> e, val |-> <<>>]

-----------------------------------------------------------------------------
(* The re module, on token sequences, with flags=re.IGNORECASE *)

Fold(tok) == IF tok = "A" THEN "a" ELSE tok

\* re.compile(pat) succeeds
Compiles(pat) == "(" \notin Range(pat)

\* the exception the replacement template raises when it is parsed, if any
TemplateError(repl) ==
    IF "\\9" \in Range(repl) THEN "re.error"
    ELSE IF "\\g<x>" \in Range(repl) THEN "IndexError"
    ELSE "none"

\* the pattern matches s at position i
MatchAt(pat, s, i) ==
    /\ i + Len(pat) - 1 <= Len(s)
    /\ \A k \in 1..Len(pat) : Fold(s[i + k - 1]) = Fold(pat[k])

\* every leftmost non-overlapping match of pat in s replaced by repl
RECURSIVE SubAll(_, _, _)
SubAll(pat, repl, s) ==
    IF s = <<>> THEN <<>>
    ELSE IF Len(pat) > 0 /\ MatchAt(pat, s, 1)
         THEN repl \o SubAll(pat, repl, SubSeq(s, Len(pat) + 1, Len(s)))
         ELSE <<Head(s)>> \o SubAll(pat, repl, Tail(s))

\* re.search(pat, s, flags=re.IGNORECASE) is not None
re_search(pat, s) ==
    IF ~Compiles(pat) THEN Raise("re.error")
    ELSE Ok(\E i \in 1..Len(s) : MatchAt(pat, s, i))

\* re.sub(pat, repl, s, flags=re.IGNORECASE): the pattern is compiled, then
\* the template is parsed, then the matches are replaced
re_sub(pat, repl, s) ==
    IF ~Compiles(pat) THEN Raise("re.error")
    ELSE IF TemplateError(repl) # "none" THEN Raise(TemplateError(repl))
    ELSE Ok(SubAll(pat, repl, s))

-----------------------------------------------------------------------------
(* link_rules.py *)

\* the token holds a double quote
HasQuote(tok) == tok \in {"O", "Q"}

\* the token is white space or starts with "<": it ends a bare URL
EndsUrl(tok) == tok \in {"_", "O", "E"}

\* least index j >= i of a token of the kind looked for, or Len(s) + 1
RECURSIVE FirstQuote(_, _)
FirstQuote(s, i) ==
    IF i > Len(s) THEN Len(s) + 1
    ELSE IF HasQuote(s[i]) THEN i ELSE FirstQuote(s, i + 1)

RECURSIVE FirstClose(_, _)
FirstClose(s, i) ==
    IF i > Len(s) THEN Len(s) + 1
    ELSE IF s[i] = "E" THEN i ELSE FirstClose(s, i + 1)

RECURSIVE FirstUrlEnd(_, _)
FirstUrlEnd(s, i) ==
    IF i > Len(s) THEN Len(s) + 1
    ELSE IF EndsUrl(s[i]) THEN i ELSE FirstUrlEnd(s, i + 1)

\* A_TAG_RE matches at position i: (<a\s+[^>]*?href=")([^"]+)(".*?>)(.*?)(</a>)
\* the href runs to the first double quote, the text to the first </a>
A_TAG_AT(s, i, q, e) ==
    [hit |-> /\ i <= Len(s) /\ s[i] = "O"
             /\ q <= Len(s) /\ s[q] = "Q" /\ q > i + 1
             /\ e <= Len(s),
     q |-> q, e |-> e]

A_TAG_TO(s, i, q) == A_TAG_AT(s, i, q, FirstClose(s, q + 1))

A_TAG_RE(s, i) == A_TAG_TO(s, i, FirstQuote(s, i + 1))

\* new_href, new_text after re.sub returned (or raised) for a rule that
\* matched: "except re.error: pass" leaves them as they are
a_tag_sub(sub, text_repl, new_href, new_text) ==
    IF sub.exc = "re.error" THEN Ok(<<new_href, new_text>>)
    ELSE IF sub.exc # "none" THEN Raise(sub.exc)
    ELSE Ok(<<sub.val, IF text_repl # None THEN text_repl ELSE new_text>>)

\* new_href, new_text after re.search returned (or raised): the rule is
\* substituted into href, the href of the input, when it matched href
a_tag_found(found, rule, href, new_href, new_text) ==
    IF found.exc = "re.error" THEN Ok(<<new_href, new_text>>)
    ELSE IF ~found.val THEN Ok(<<new_href, new_text>>)
    ELSE a_tag_sub(re_sub(rule[1], rule[2], href), rule[3], new_href, new_text)

\* one round of the loop of replace_a_tag: for pat, url_repl, text_repl in rules
a_tag_rule(rule, href, new_href, new_text) ==
    IF Len(rule) # 3 THEN Raise("ValueError")
    ELSE a_tag_found(re_search(rule[1], href), rule, href, new_href, new_text)

\* the loop of replace_a_tag over rules[i..], for one anchor; acc holds
\* new_href, new_text or the exception that ended the loop
RECURSIVE a_tag_rules(_, _, _, _)
a_tag_rules(rules, i, href, acc) ==
    IF i > Len(rules) \/ acc.exc # "none" THEN acc
    ELSE a_tag_rules(rules, i + 1, href,
                     a_tag_rule(rules[i], href, acc.val[1], acc.val[2]))

\* return f"{prefix}{new_href}{mid}{new_text}{suffix}"
a_tag_join(prefix, r, mid, suffix) ==
    IF r.exc # "none" THEN r
    ELSE Ok(prefix \o r.val[1] \o mid \o r.val[2] \o suffix)

replace_a_tag(prefix, href, mid, text, suffix, rules) ==
    a_tag_join(prefix, a_tag_rules(rules, 1, href, Ok(<<href, text>>)), mid, suffix)

\* what the scan has produced (acc) with one more piece appended
Emit(acc, piece) ==
    IF piece.exc # "none" THEN piece ELSE Ok(acc.val \o piece.val)

\* the piece for a match of A_TAG_RE at position i, or for the token there
anchor_piece(s, i, m, rules) ==
    IF m.hit
    THEN replace_a_tag(<<s[i]>>, SubSeq(s, i + 1, m.q - 1), <<s[m.q]>>,
                       SubSeq(s, m.q + 1, m.e - 1), <<s[m.e]>>, rules)
    ELSE Ok(<<s[i]>>)

\* A_TAG_RE.sub(replace_a_tag, html), scanning from position i
RECURSIVE anchor_scan(_, _, _, _, _)
anchor_scan(s, i, m, rules, acc) ==
    IF acc.exc # "none" THEN acc
    ELSE IF i > Len(s) THEN acc
    ELSE anchor_scan(s, IF m.hit THEN m.e + 1 ELSE i + 1,
                     A_TAG_RE(s, IF m.hit THEN m.e + 1 ELSE i + 1),
                     rules, Emit(acc, anchor_piece(s, i, m, rules)))

anchor_pass(s, i, rules) == anchor_scan(s, i, A_TAG_RE(s, i), rules, Ok(<<>>))

\* new_val after re.sub returned or raised: "except re.error: pass"
raw_sub(sub, new_val) ==
    IF sub.exc = "re.error" THEN Ok(new_val)
    ELSE IF sub.exc # "none" THEN Raise(sub.exc)
    ELSE Ok(sub.val)

\* one round of the loop of repl_raw: for pat, rep, _ in rules
raw_rule(rule, new_val) ==
    IF Len(rule) # 3 THEN Raise("ValueError")
    ELSE raw_sub(re_sub(rule[1], rule[2], new_val), new_val)

\* the loop of repl_raw over rules[i..], for one bare URL; acc holds new_val
\* or the exception that ended the loop
RECURSIVE repl_raw(_, _, _)
repl_raw(rules, i, acc) ==
    IF i > Len(rules) \/ acc.exc # "none" THEN acc
    ELSE repl_raw(rules, i + 1, raw_rule(rules[i], acc.val))

\* the piece for a match of https?://[^\s<]+ from position i to before e, or
\* for the token at i
raw_piece(s, i, e, rules) ==
    IF s[i] = "S" /\ e > i + 1
    THEN repl_raw(rules, 1, Ok(SubSeq(s, i, e - 1)))
    ELSE Ok(<<s[i]>>)

\* re.sub(r'(https?://[^\s<]+)', repl_raw, html), scanning from position i
RECURSIVE raw_scan(_, _, _, _, _)
raw_scan(s, i, e, rules, acc) ==
    IF acc.exc # "none" THEN acc
    ELSE IF i > Len(s) THEN acc
    ELSE raw_scan(s, IF s[i] = "S" /\ e > i + 1 THEN e ELSE i + 1,
                  FirstUrlEnd(s, (IF s[i] = "S" /\ e > i + 1 THEN e ELSE i + 1) + 1),
                  rules, Emit(acc, raw_piece(s, i, e, rules)))

raw_pass(s, i, rules) == raw_scan(s, i, FirstUrlEnd(s, i + 1), rules, Ok(<<>>))

\* the raw-URL pass on the result of the anchor pass, unless that raised
after_anchor_pass(p1, rules) ==
    IF p1.exc # "none" THEN p1 ELSE raw_pass(p1.val, 1, rules)

replace_links_in_html(html, rules) ==
    IF html = <<>> \/ html = None \/ rules = <<>>
    THEN Ok(IF html = None THEN <<>> ELSE html)
    ELSE after_anchor_pass(anchor_pass(html, 1, rules), rules)

-----------------------------------------------------------------------------
(* Inputs of the rewriter taken on its own *)

MaxRules == 2

Anchor(href, text) == <<"O">> \o href \o <<"Q">> \o text \o <<"E">>

Docs ==
    { None, <<>>, <<"c">>,
      Anchor(<<"S", "a">>, <<"c">>),
      Anchor(<<"S", "A">>, <<"c">>),
      Anchor(<<"S", "c">>, <<"a">>),
      Anchor(<<"S", "a">>, <<"c", "_", "a">>),
      <<"c", "_", "S", "a", "_", "c">>,
      Anchor(<<"S", "a">>, <<"c">>) \o <<"_", "S", "b">>,
      Anchor(<<"S", "a">>, <<"c">>) \o Anchor(<<"S", "b">>, <<"c">>) }

\* rules as (pattern, new_url, new_text_or_None)
RulePool ==
    { <<<<"a">>, <<"b">>, None>>,
      <<<<"a">>, <<"b">>, <<"n">>>>,
      <<<<"b">>, <<"c">>, <<"m">>>>,
      <<<<"a">>, <<"c">>, None>>,
      <<<<"a">>, <<"a", "b">>, None>>,
      <<<<"(">>, <<"b">>, <<"n">>>>,
      <<<<"a">>, <<"\\9">>, <<"n">>>>,
      <<<<"a">>, <<"\\g<x>">>, None>> }

RuleLists == UNION {[1..k -> RulePool] : k \in 0..MaxRules}

RwIdle == [pc |-> "idle", html |-> <<>>, rules |-> <<>>, mid |-> <<>>,
           out |-> <<>>, exc |-> "none"]

-----------------------------------------------------------------------------
(* replace_links_in_html, one call, step by step *)

\* the call after the anchor pass returned r or raised
AfterAnchorPass(r) ==
    IF r.exc # "none"
    THEN [rw EXCEPT !.pc = "ret", !.exc = r.exc]
    ELSE [rw EXCEPT !.pc = "raw", !.mid = r.val]

\* the call after the raw-URL pass returned r or raised
AfterRawPass(r) ==
    IF r.exc # "none"
    THEN [rw EXCEPT !.pc = "ret", !.exc = r.exc]
    ELSE [rw EXCEPT !.pc = "ret", !.out = r.val]

\* variant: if not html or not rules: return html
RwEarlyReturnAsIs ==
    /\ rw.pc = "call"
    /\ rw.html = <<>> \/ rw.html = None \/ rw.rules = <<>>
    /\ rw' = [rw EXCEPT !.pc = "ret", !.out = rw.html]
    /\ UNCHANGED <<channels, mappings, link_rules, rule_seq, task, ADMIN_IDS, cmd>>

\* if not html or not rules: return html or ""
RwEarlyReturn ==
    /\ rw.pc = "call"
    /\ rw.html = <<>> \/ rw.html = None \/ rw.rules = <<>>
    /\ rw' = [rw EXCEPT !.pc = "ret",
                        !.out = IF rw.html = None THEN <<>> ELSE rw.html]
    /\ UNCHANGED <<channels, mappings, link_rules, rule_seq, task, ADMIN_IDS, cmd>>

\* html = A_TAG_RE.sub(replace_a_tag, html)
RwAnchorPass ==
    /\ rw.pc = "call"
    /\ ~(rw.html = <<>> \/ rw.html = None \/ rw.rules = <<>>)
    /\ rw' = AfterAnchorPass(anchor_pass(rw.html, 1, rw.rules))
    /\ UNCHANGED <<channels, mappings, link_rules, rule_seq, task, ADMIN_IDS, cmd>>

\* html = re.sub(r'(https?://[^\s<]+)', repl_raw, html); return html
RwRawPass ==
    /\ rw.pc = "raw"
    /\ rw' = AfterRawPass(raw_pass(rw.mid, 1, rw.rules))
    /\ UNCHANGED <<channels, mappings, link_rules, rule_seq, task, ADMIN_IDS, cmd>>

-----------------------------------------------------------------------------
(* storage.py: the mappings table is the sequence of its rows              *)
(* (source_tg_id, dest_tg_id) in rowid order; the link_rules table is the  *)
(* set of its rows (id, pattern, replacement, text_repl); rule_seq is the  *)
(* last id AUTOINCREMENT has handed out.                                   *)

\* INSERT INTO channels (tg_id, title, kind) ... ON CONFLICT(tg_id) DO UPDATE
\* SET title, kind; the table as the set of its rows (tg_id, title, kind)
upsert_channel(tbl, tg_id, title, kind) ==
    {row \in tbl : row[1] # tg_id} \cup {<<tg_id, title, kind>>}

\* SELECT id, tg_id, title, kind FROM channels
list_channels(tbl) == tbl

\* variant: the row is inserted in both directions
add_mapping_both_ways(tbl, source_tg_id, dest_tg_id) ==
    LET one == IF \E i \in 1..Len(tbl) : tbl[i] = <<source_tg_id, dest_tg_id>>
               THEN tbl
               ELSE Append(tbl, <<source_tg_id, dest_tg_id>>)
    IN  IF \E i \in 1..Len(one) : one[i] = <<dest_tg_id, source_tg_id>>
        THEN one
        ELSE Append(one, <<dest_tg_id, source_tg_id>>)

\* INSERT OR IGNORE INTO mappings ..., under UNIQUE(source_tg_id, dest_tg_id)
add_mapping(tbl, source_tg_id, dest_tg_id) ==
    IF \E i \in 1..Len(tbl) : tbl[i] = <<source_tg_id, dest_tg_id>>
    THEN tbl
    ELSE Append(tbl, <<source_tg_id, dest_tg_id>>)

\* DELETE FROM mappings WHERE source_tg_id=? AND dest_tg_id=?
remove_mapping(tbl, source_tg_id, dest_tg_id) ==
    SelectSeq(tbl, LAMBDA row : row # <<source_tg_id, dest_tg_id>>)

\* variant: ... WHERE source_tg_id=? OR dest_tg_id=?
list_mappings_either_end(tbl, source_tg_id) ==
    LET rows == SelectSeq(tbl, LAMBDA row : row[1] = source_tg_id \/ row[2] = source_tg_id)
    IN  [i \in 1..Len(rows) |-> rows[i][2]]

\* SELECT dest_tg_id FROM mappings WHERE source_tg_id=?
list_mappings_for_source(tbl, source_tg_id) ==
    LET rows == SelectSeq(tbl, LAMBDA row : row[1] = source_tg_id)
    IN  [i \in 1..Len(rows) |-> rows[i][2]]

\* variant: id without AUTOINCREMENT, one more than the largest id in the table
add_link_rule_rowid(tbl, seq, pattern, replacement, text_repl) ==
    LET top == IF tbl = {} THEN 0
               ELSE CHOOSE n \in {row[1] : row \in tbl} : \A row \in tbl : row[1] <= n
    IN  tbl \cup {<<top + 1, pattern, replacement, text_repl>>}

\* INSERT INTO link_rules (pattern, replacement, text_repl) VALUES (?,?,?)
add_link_rule(tbl, seq, pattern, replacement, text_repl) ==
    tbl \cup {<<seq + 1, pattern, replacement, text_repl>>}

\* DELETE FROM link_rules WHERE id=?
remove_link_rule(tbl, rule_id) == {row \in tbl : row[1] # rule_id}

\* the rows of a set in ascending order of id
RECURSIVE OrderByIdAsc(_)
OrderByIdAsc(rows) ==
    IF rows = {} THEN <<>>
    ELSE LET first == CHOOSE r \in rows : \A o \in rows : r[1] <= o[1]
         IN  <<first>> \o OrderByIdAsc(rows \ {first})

\* SELECT id, pattern, replacement, text_repl FROM link_rules ORDER BY id ASC
list_link_rules(tbl) == OrderByIdAsc(tbl)

-----------------------------------------------------------------------------
(* bot.py: helpers of the post handlers *)

\* return [(r[1], r[2]) for r in rows]
get_rules(tbl) ==
    LET rows == list_link_rules(tbl)
    IN  [i \in 1..Len(rows) |-> <<rows[i][2], rows[i][3]>>]

\* replace_links_in_html(html_text or "", rules)
transform_html(html_text, rules) ==
    replace_links_in_html(IF html_text = None THEN <<>> ELSE html_text, rules)

\* variant: the handler has no early return
NoDestsNever(dest_ids) == FALSE

\* if not dest_ids: return
NoDests(dest_ids) == dest_ids = <<>>

NoPoll == [type |-> "none"]

CaptionKinds == {"photo", "video", "animation", "document", "audio", "voice"}

SendOp(content_type) == "send_" \o content_type

\* the attachment handed to the send call of a captioned kind
Attachment(m) ==
    IF m.content_type = "photo" THEN m.photo[Len(m.photo)] ELSE m.file_id

\* variant: correct_option_id and explanation handed on whatever the type
PollArgsAsReceived(poll) ==
    [question |-> poll.question,
     options |-> poll.options,
     is_anonymous |-> poll.is_anonymous,
     allows_multiple_answers |-> poll.allows_multiple_answers,
     type |-> poll.type,
     correct_option_id |-> poll.correct_option_id,
     explanation |-> poll.explanation]

\* the poll arguments of bot.send_poll
PollArgs(poll) ==
    [question |-> poll.question,
     options |-> poll.options,
     is_anonymous |-> poll.is_anonymous,
     allows_multiple_answers |-> poll.allows_multiple_answers,
     type |-> poll.type,
     correct_option_id |-> IF poll.type = "quiz" THEN poll.correct_option_id ELSE "None",
     explanation |-> IF poll.type = "quiz" THEN poll.explanation ELSE "None"]

\* the if/elif chain of on_channel_post: the send closure it defines, or the
\* exception transform_html raises
ocp_send(m, rules) ==
    IF m.content_type = "text"
    THEN LET h == transform_html(m.html, rules) IN
         IF h.exc # "none" THEN h
         ELSE Ok([op |-> "send_message", text |-> h.val, file |-> "none",
                  poll |-> NoPoll, disable_web_page_preview |-> "False"])
    ELSE IF m.content_type \in CaptionKinds
    THEN LET h == transform_html(m.html, rules) IN
         IF h.exc # "none" THEN h
         ELSE Ok([op |-> SendOp(m.content_type), text |-> h.val,
                  file |-> Attachment(m), poll |-> NoPoll,
                  disable_web_page_preview |-> "unset"])
    ELSE IF m.content_type = "video_note"
    THEN Ok([op |-> "send_video_note", text |-> None, file |-> m.file_id,
             poll |-> NoPoll, disable_web_page_preview |-> "unset"])
    ELSE IF m.content_type = "poll" /\ m.poll # NoPoll
    THEN Ok([op |-> "send_poll", text |-> None, file |-> "none",
             poll |-> PollArgs(m.poll), disable_web_page_preview |-> "unset"])
    ELSE Ok([op |-> "copy_message", text |-> None, file |-> "none",
             poll |-> NoPoll, disable_web_page_preview |-> "unset"])

\* the TEXT branch of on_edited_channel_post; "U" is the fixed marker that
\* precedes the text
ecp_send(m, rules) ==
    LET h == transform_html(m.html, rules) IN
    IF h.exc # "none" THEN h
    ELSE Ok([op |-> "send_message", text |-> <<"U">> \o h.val, file |-> "none",
             poll |-> NoPoll, disable_web_page_preview |-> "unset"])

-----------------------------------------------------------------------------
(* Inputs of the pipeline *)

MaxRuleId == 2

\* the chats posts arrive from, and the pairs the admin maps and unmaps
PostChats == {1}

Chats == {1, 2, 3}

MapPairs == {<<1, 2>>, <<1, 3>>, <<2, 1>>}

\* (pattern, replacement) as /addrule takes them
AddrulePool == {<<<<"a">>, <<"b">>>>, <<<<"(">>, <<"b">>>>}

Polls ==
    { [question |-> "q", options |-> <<"y", "x">>, is_anonymous |-> FALSE,
       allows_multiple_answers |-> TRUE, type |-> "regular",
       correct_option_id |-> "1", explanation |-> "e"],
      [question |-> "q", options |-> <<"x", "y">>, is_anonymous |-> TRUE,
       allows_multiple_answers |-> FALSE, type |-> "quiz",
       correct_option_id |-> "1", explanation |-> "e"] }

Msg(chat, kind, html, poll) ==
    [chat |-> chat, message_id |-> 7, content_type |-> kind, html |-> html,
     photo |-> IF kind = "photo" THEN <<"small", "large">> ELSE <<>>,
     file_id |-> IF kind \in CaptionKinds \cup {"video_note"} THEN "file" ELSE "none",
     poll |-> poll]

PostsFrom(chat) ==
    {Msg(chat, "text", d, NoPoll) :
        d \in {<<"c">>, Anchor(<<"S", "a">>, <<"c">>), <<"c", "_", "S", "a">>}}
    \cup {Msg(chat, k, Anchor(<<"S", "a">>, <<"c">>), NoPoll) : k \in CaptionKinds}
    \cup {Msg(chat, "photo", None, NoPoll)}
    \cup {Msg(chat, "video_note", None, NoPoll), Msg(chat, "other", None, NoPoll)}
    \cup {Msg(chat, "poll", None, p) : p \in Polls \cup {NoPoll}}

Posts == UNION {PostsFrom(chat) : chat \in PostChats}

NoMsg == Msg(0, "none", None, NoPoll)

NoSend == [op |-> "none"]

Idle ==
    [pc |-> "idle", handler |-> "none", m |-> NoMsg, rules |-> <<>>, send |-> NoSend,
     dest_ids |-> <<>>, i |-> 0, attempts |-> <<>>, exc |-> "none",
     nodests |-> FALSE, fanout |-> FALSE]

-----------------------------------------------------------------------------
(* storage.py: one call of a storage function, each a statement of its own *)
(* on the database                                                         *)

MaxStoreRuleId == 3

StorePairs == {<<1, 1>>, <<1, 2>>, <<2, 1>>, <<2, 2>>}

\* (pattern, replacement, text_repl)
StoreRules == {<<<<"a">>, <<"b">>, None>>, <<<<"b">>, <<"c">>, <<"n">>>>}

\* await add_mapping(source_tg_id, dest_tg_id)
CallAddMapping(source_tg_id, dest_tg_id) ==
    /\ mappings' = add_mapping(mappings, source_tg_id, dest_tg_id)
    /\ UNCHANGED <<channels, link_rules, rule_seq, task, rw, ADMIN_IDS, cmd>>

\* await remove_mapping(source_tg_id, dest_tg_id)
CallRemoveMapping(source_tg_id, dest_tg_id) ==
    /\ mappings' = remove_mapping(mappings, source_tg_id, dest_tg_id)
    /\ UNCHANGED <<channels, link_rules, rule_seq, task, rw, ADMIN_IDS, cmd>>

\* await add_link_rule(pattern, replacement, text_repl)
CallAddLinkRule(pattern, replacement, text_repl) ==
    /\ rule_seq < MaxStoreRuleId
    /\ link_rules' = add_link_rule(link_rules, rule_seq, pattern, replacement, text_repl)
    /\ rule_seq' = rule_seq + 1
    /\ UNCHANGED <<channels, mappings, task, rw, ADMIN_IDS, cmd>>

\* await remove_link_rule(rule_id)
CallRemoveLinkRule(rule_id) ==
    /\ link_rules' = remove_link_rule(link_rules, rule_id)
    /\ UNCHANGED <<channels, mappings, rule_seq, task, rw, ADMIN_IDS, cmd>>

-----------------------------------------------------------------------------
(* Strings that are read as numbers: the words a command or the ADMIN_IDS  *)
(* value can hold, and what str.strip, str.isdigit and int make of them    *)

\* x.strip()
strip(x) == IF x = " 7" THEN "7" ELSE x

\* x.isdigit(): digits only, and at least one
isdigit(x) == x \in {"1", "2", "7"}

\* int(x): the number, or ValueError
int(x) ==
    IF strip(x) = "1" THEN Ok(1)
    ELSE IF strip(x) = "2" THEN Ok(2)
    ELSE IF strip(x) = "7" THEN Ok(7)
    ELSE IF strip(x) = "-1" THEN Ok(-1)
    ELSE Raise("ValueError")

-----------------------------------------------------------------------------
(* config.py: ADMIN_IDS from the environment value, given as its pieces    *)
(* between the commas                                                      *)

\* {int(x.strip()) for x in os.getenv("ADMIN_IDS", "").split(",") if x.strip().isdigit()}
config_ADMIN_IDS(pieces) ==
    {int(strip(x)).val : x \in {y \in Range(pieces) : isdigit(strip(y))}}

\* the value unset or empty, one id, an id after a blank and a word
AdminEnvs == {<<"">>, <<"7">>, <<" 7", "x", "-1">>}

-----------------------------------------------------------------------------
(* bot.py: admin commands. A command message is its sender, its chat and   *)
(* the words of its text, m.text.strip().split(); cmd is the last command  *)
(* handled, with the text the handler answered and the exception it        *)
(* raised.                                                                 *)

Users == {7, 8}

CmdMsg(user, chat_type, words) ==
    [from_user |-> user,
     chat |-> [id |-> IF chat_type = "channel" THEN 1 ELSE 9, type |-> chat_type,
               title |-> "t"],
     text |-> words]

NoCmd == [m |-> CmdMsg(0, "none", <<>>), answer |-> "none", exc |-> "none"]

\* m.answer(text): what the handler did with m
Answered(m, text) == [m |-> m, answer |-> text, exc |-> "none"]

Raised(m, e) == [m |-> m, answer |-> "none", exc |-> e]

\* variant: everyone is an admin
is_admin_anyone(user_id) == TRUE

\* return user_id in ADMIN_IDS
is_admin(user_id) == user_id \in ADMIN_IDS

\* ensure_admin(m) has answered "admins only" and returned False
Refused(m) == Answered(m, "admins_only")

\* /add_source, /add_dest: upsert_channel(m.chat.id, m.chat.title or "", kind)
add_channel(m, kind) ==
    /\ IF ~is_admin(m.from_user)
       THEN cmd' = Refused(m) /\ UNCHANGED channels
       ELSE IF m.chat.type # "channel"
       THEN cmd' = Answered(m, "not_in_channel") /\ UNCHANGED channels
       ELSE /\ channels' = upsert_channel(channels, m.chat.id, m.chat.title, kind)
            /\ cmd' = Answered(m, "added_" \o kind)
    /\ UNCHANGED <<mappings, link_rules, rule_seq, ADMIN_IDS, task, rw>>

add_source(m) == add_channel(m, "source")

add_dest(m) == add_channel(m, "destination")

\* /channels
channels_cmd(m) ==
    /\ cmd' = IF ~is_admin(m.from_user) THEN Refused(m)
              ELSE IF list_channels(channels) = {} THEN Answered(m, "channels_empty")
              ELSE Answered(m, "channels_list")
    /\ UNCHANGED <<channels, mappings, link_rules, rule_seq, ADMIN_IDS, task, rw>>

\* src = int(parts[1]); dst = int(parts[2]), Python counting from 0
PairOf(parts) ==
    IF int(parts[2]).exc # "none" THEN int(parts[2])
    ELSE IF int(parts[3]).exc # "none" THEN int(parts[3])
    ELSE Ok(<<int(parts[2]).val, int(parts[3]).val>>)

\* /map <source_id> <dest_id>
map_cmd(m) ==
    /\ IF ~is_admin(m.from_user)
       THEN cmd' = Refused(m) /\ UNCHANGED mappings
       ELSE IF Len(m.text) # 3
       THEN cmd' = Answered(m, "usage_map") /\ UNCHANGED mappings
       ELSE IF PairOf(m.text).exc # "none"
       THEN cmd' = Raised(m, PairOf(m.text).exc) /\ UNCHANGED mappings
       ELSE /\ mappings' = add_mapping(mappings, PairOf(m.text).val[1], PairOf(m.text).val[2])
            /\ cmd' = Answered(m, "mapped")
    /\ UNCHANGED <<channels, link_rules, rule_seq, ADMIN_IDS, task, rw>>

\* /unmap <source_id> <dest_id>
unmap_cmd(m) ==
    /\ IF ~is_admin(m.from_user)
       THEN cmd' = Refused(m) /\ UNCHANGED mappings
       ELSE IF Len(m.text) # 3
       THEN cmd' = Answered(m, "usage_unmap") /\ UNCHANGED mappings
       ELSE IF PairOf(m.text).exc # "none"
       THEN cmd' = Raised(m, PairOf(m.text).exc) /\ UNCHANGED mappings
       ELSE /\ mappings' = remove_mapping(mappings, PairOf(m.text).val[1],
                                          PairOf(m.text).val[2])
            /\ cmd' = Answered(m, "unmapped")
    /\ UNCHANGED <<channels, link_rules, rule_seq, ADMIN_IDS, task, rw>>

\* /rules: for rid, pat, rep in rules, over rows of four columns
rules_cmd(m) ==
    /\ cmd' = IF ~is_admin(m.from_user) THEN Refused(m)
              ELSE IF list_link_rules(link_rules) = <<>> THEN Answered(m, "rules_empty")
              ELSE IF Len(list_link_rules(link_rules)[1]) # 3 THEN Raised(m, "ValueError")
              ELSE Answered(m, "rules_list")
    /\ UNCHANGED <<channels, mappings, link_rules, rule_seq, ADMIN_IDS, task, rw>>

\* the words from the i-th on, one blank between them
RECURSIVE JoinWords(_, _)
JoinWords(words, i) ==
    IF i > Len(words) THEN <<>>
    ELSE IF i = Len(words) THEN <<words[i]>>
    ELSE <<words[i], "_">> \o JoinWords(words, i + 1)

\* /addrule <pattern> <replacement>: head, pattern, replacement =
\* m.text.strip().split(" ", 2), ValueError answered with the usage
addrule_cmd(m) ==
    /\ IF ~is_admin(m.from_user)
       THEN cmd' = Refused(m) /\ UNCHANGED <<link_rules, rule_seq>>
       ELSE IF Len(m.text) < 3
       THEN cmd' = Answered(m, "usage_addrule") /\ UNCHANGED <<link_rules, rule_seq>>
       ELSE /\ rule_seq < MaxRuleId
            /\ link_rules' = add_link_rule(link_rules, rule_seq, <<m.text[2]>>,
                                           JoinWords(m.text, 3), None)
            /\ rule_seq' = rule_seq + 1
            /\ cmd' = Answered(m, "rule_added")
    /\ UNCHANGED <<channels, mappings, ADMIN_IDS, task, rw>>

\* /delrule <id>
delrule_cmd(m) ==
    /\ IF ~is_admin(m.from_user)
       THEN cmd' = Refused(m) /\ UNCHANGED link_rules
       ELSE IF Len(m.text) # 2 \/ ~isdigit(m.text[2])
       THEN cmd' = Answered(m, "usage_delrule") /\ UNCHANGED link_rules
       ELSE /\ link_rules' = remove_link_rule(link_rules, int(m.text[2]).val)
            /\ cmd' = Answered(m, "rule_deleted")
    /\ UNCHANGED <<channels, mappings, rule_seq, ADMIN_IDS, task, rw>>

-----------------------------------------------------------------------------
(* bot.py: the post handlers, one step per await. task.dest_ids is the      *)
(* local dest_ids of the handler that runs, then that of mirror_to_dests;  *)
(* task.rules is the local rules of the handler that runs.                 *)

\* a new post reaches on_channel_post
NewPost(m) ==
    /\ task.pc = "idle"
    /\ task' = [Idle EXCEPT !.pc = "ocp_dests", !.handler = "new", !.m = m]
    /\ UNCHANGED <<channels, mappings, link_rules, rule_seq, rw, ADMIN_IDS, cmd>>

\* an edited post reaches on_edited_channel_post
EditedPost(m) ==
    /\ task.pc = "idle"
    /\ task' = [Idle EXCEPT !.pc = "ecp_dests", !.handler = "edited", !.m = m]
    /\ UNCHANGED <<channels, mappings, link_rules, rule_seq, rw, ADMIN_IDS, cmd>>

\* on_channel_post: dest_ids = await list_mappings_for_source(m.chat.id)
OcpReadDests ==
    /\ task.pc = "ocp_dests"
    /\ LET dest_ids == list_mappings_for_source(mappings, task.m.chat) IN
       task' = IF NoDests(dest_ids)
               THEN [task EXCEPT !.pc = "done", !.nodests = Len(dest_ids) = 0,
                                 !.dest_ids = dest_ids]
               ELSE [task EXCEPT !.pc = "ocp_rules", !.nodests = Len(dest_ids) = 0,
                                 !.dest_ids = dest_ids]
    /\ UNCHANGED <<channels, mappings, link_rules, rule_seq, rw, ADMIN_IDS, cmd>>

\* on_channel_post: rules = await get_rules(), then the branch for the
\* content type up to the call of mirror_to_dests
OcpDispatch ==
    /\ task.pc = "ocp_rules"
    /\ LET rules == get_rules(link_rules)
           s == ocp_send(task.m, rules)
       IN  task' = IF s.exc # "none"
                   THEN [task EXCEPT !.pc = "done", !.exc = s.exc, !.rules = rules]
                   ELSE [task EXCEPT !.pc = "mirror_dests", !.send = s.val,
                                     !.rules = rules]
    /\ UNCHANGED <<channels, mappings, link_rules, rule_seq, rw, ADMIN_IDS, cmd>>

\* on_edited_channel_post: dest_ids = await list_mappings_for_source(m.chat.id)
EcpReadDests ==
    /\ task.pc = "ecp_dests"
    /\ LET dest_ids == list_mappings_for_source(mappings, task.m.chat) IN
       task' = IF NoDests(dest_ids)
               THEN [task EXCEPT !.pc = "done", !.nodests = Len(dest_ids) = 0,
                                 !.dest_ids = dest_ids]
               ELSE [task EXCEPT !.pc = "ecp_rules", !.nodests = Len(dest_ids) = 0,
                                 !.dest_ids = dest_ids]
    /\ UNCHANGED <<channels, mappings, link_rules, rule_seq, rw, ADMIN_IDS, cmd>>

\* on_edited_channel_post: rules = await get_rules(), then the TEXT branch up
\* to the call of mirror_to_dests, or the call of on_channel_post(m)
EcpDispatch ==
    /\ task.pc = "ecp_rules"
    /\ LET rules == get_rules(link_rules)
           s == ecp_send(task.m, rules)
       IN  task' = IF task.m.content_type # "text"
                   THEN [task EXCEPT !.pc = "ocp_dests", !.rules = rules]
                   ELSE IF s.exc # "none"
                   THEN [task EXCEPT !.pc = "done", !.exc = s.exc, !.rules = rules]
                   ELSE [task EXCEPT !.pc = "mirror_dests", !.send = s.val,
                                     !.rules = rules]
    /\ UNCHANGED <<channels, mappings, link_rules, rule_seq, rw, ADMIN_IDS, cmd>>

\* mirror_to_dests: dest_ids = await list_mappings_for_source(source_chat_id)
MirrorReadDests ==
    /\ task.pc = "mirror_dests"
    /\ LET dest_ids == list_mappings_for_source(mappings, task.m.chat) IN
       task' = [task EXCEPT !.pc = IF dest_ids = <<>> THEN "done" ELSE "mirror_send",
                            !.dest_ids = dest_ids, !.i = 1, !.fanout = TRUE]
    /\ UNCHANGED <<channels, mappings, link_rules, rule_seq, rw, ADMIN_IDS, cmd>>

\* variant: no try/except around send_fn, the exception leaves the loop
MirrorNextSkipsRest(dest_ids, i, ok) ==
    IF ok /\ i < Len(dest_ids)
    THEN [pc |-> "mirror_send", i |-> i + 1, exc |-> "none"]
    ELSE [pc |-> "done", i |-> i + 1, exc |-> IF ok THEN "none" ELSE "TransportError"]

\* where mirror_to_dests goes after send_fn(dest_ids[i]) returned (ok) or
\* raised: the exception is caught and the loop goes on
MirrorNext(dest_ids, i, ok) ==
    IF i < Len(dest_ids)
    THEN [pc |-> "mirror_send", i |-> i + 1, exc |-> "none"]
    ELSE [pc |-> "done", i |-> i + 1, exc |-> "none"]

\* variant: a destination whose send raised is unmapped
MirrorSendUnmapsFailed(ok) ==
    /\ task.pc = "mirror_send"
    /\ LET nxt == MirrorNext(task.dest_ids, task.i, ok) IN
       task' = [task EXCEPT !.pc = nxt.pc, !.i = nxt.i, !.exc = nxt.exc,
                            !.attempts = Append(@, [dest |-> task.dest_ids[task.i],
                                                    ok |-> ok])]
    /\ mappings' = IF ok THEN mappings
                   ELSE remove_mapping(mappings, task.m.chat, task.dest_ids[task.i])
    /\ UNCHANGED <<channels, link_rules, rule_seq, ADMIN_IDS, cmd, rw>>

\* mirror_to_dests: await send_fn(dest) for the next dest; the transport
\* delivers the message or raises
MirrorSend(ok) ==
    /\ task.pc = "mirror_send"
    /\ LET nxt == MirrorNext(task.dest_ids, task.i, ok) IN
       task' = [task EXCEPT !.pc = nxt.pc, !.i = nxt.i, !.exc = nxt.exc,
                            !.attempts = Append(@, [dest |-> task.dest_ids[task.i],
                                                    ok |-> ok])]
    /\ UNCHANGED <<channels, mappings, link_rules, rule_seq, rw, ADMIN_IDS, cmd>>

\* the handler has returned or raised: the dispatcher is done with the post
HandlerEnd ==
    /\ task.pc = "done"
    /\ task' = Idle
    /\ UNCHANGED <<channels, mappings, link_rules, rule_seq, rw, ADMIN_IDS, cmd>>

-----------------------------------------------------------------------------
(* The pipeline: posts, and the storage calls that the commands of an      *)
(* admin make (/map, /unmap, /addrule, /delrule), interleaved at the       *)
(* awaits of the handlers                                                  *)

Init ==
    /\ channels = {}
    /\ ADMIN_IDS = config_ADMIN_IDS(<<"7">>)
    /\ cmd = NoCmd
    /\ mappings = <<>>
    /\ link_rules = {}
    /\ rule_seq = 0
    /\ task = Idle
    /\ rw = RwIdle

Next ==
    \/ \E p \in MapPairs : CallAddMapping(p[1], p[2])
    \/ \E p \in MapPairs : CallRemoveMapping(p[1], p[2])
    \/ \E r \in AddrulePool : rule_seq < MaxRuleId /\ CallAddLinkRule(r[1], r[2], None)
    \/ \E id \in 1..MaxRuleId : CallRemoveLinkRule(id)
    \/ \E m \in Posts : NewPost(m)
    \/ \E m \in Posts : EditedPost(m)
    \/ OcpReadDests
    \/ OcpDispatch
    \/ EcpReadDests
    \/ EcpDispatch
    \/ MirrorReadDests
    \/ \E ok \in BOOLEAN : MirrorSend(ok)
    \/ HandlerEnd

Spec == Init /\ [][Next]_vars

-----------------------------------------------------------------------------
(* The rewriter on its own: one call on each input *)

RwInit ==
    /\ channels = {}
    /\ ADMIN_IDS = config_ADMIN_IDS(<<"7">>)
    /\ cmd = NoCmd
    /\ mappings = <<>>
    /\ link_rules = {}
    /\ rule_seq = 0
    /\ task = Idle
    /\ rw \in {[RwIdle EXCEPT !.pc = "call", !.html = d, !.rules = rs] :
                  d \in Docs, rs \in RuleLists}

RwNext == RwEarlyReturn \/ RwAnchorPass \/ RwRawPass

SpecRewrite == RwInit /\ [][RwNext]_vars

-----------------------------------------------------------------------------
(* The pipeline with the admin commands issued between posts only: every   *)
(* command has completed before the next post starts processing.           *)

Quiet == task.pc \in {"idle", "done"}

SerialNext ==
    \/ Quiet /\ \E p \in MapPairs : CallAddMapping(p[1], p[2])
    \/ Quiet /\ \E p \in MapPairs : CallRemoveMapping(p[1], p[2])
    \/ Quiet /\ \E r \in AddrulePool : rule_seq < MaxRuleId /\ CallAddLinkRule(r[1], r[2], None)
    \/ Quiet /\ \E id \in 1..MaxRuleId : CallRemoveLinkRule(id)
    \/ \E m \in Posts : NewPost(m)
    \/ \E m \in Posts : EditedPost(m)
    \/ OcpReadDests
    \/ OcpDispatch
    \/ EcpReadDests
    \/ EcpDispatch
    \/ MirrorReadDests
    \/ \E ok \in BOOLEAN : MirrorSend(ok)
    \/ HandlerEnd

SpecSerial == Init /\ [][SerialNext]_vars

-----------------------------------------------------------------------------
(* storage.py on its own: any sequence of calls of the mapping and the     *)
(* rule functions                                                          *)

StoreNext ==
    \/ \E p \in StorePairs : CallAddMapping(p[1], p[2])
    \/ \E p \in StorePairs : CallRemoveMapping(p[1], p[2])
    \/ \E r \in StoreRules : CallAddLinkRule(r[1], r[2], r[3])
    \/ \E id \in 1..MaxStoreRuleId : CallRemoveLinkRule(id)

SpecStore == Init /\ [][StoreNext]_vars

-----------------------------------------------------------------------------
(* The admin commands on their own: any sequence of commands, well formed  *)
(* or not, from an admin or not, under each ADMIN_IDS value                *)

MapTexts ==
    { <<"/map", "1", "2">>, <<"/map", "2", "1">>, <<"/map", "-1", "2">>,
      <<"/map", "1">>, <<"/map", "1", "2", "7">>, <<"/map", "1", "x">>,
      <<"/map", "x", "2">> }

UnmapTexts ==
    { <<"/unmap", "1", "2">>, <<"/unmap", "2", "1">>, <<"/unmap">>,
      <<"/unmap", "x", "2">> }

AddruleTexts ==
    { <<"/addrule", "a", "b">>, <<"/addrule", "a", "b", "c">>, <<"/addrule", "a">>,
      <<"/addrule">> }

DelruleTexts ==
    { <<"/delrule", "1">>, <<"/delrule", "2">>, <<"/delrule">>, <<"/delrule", "x">>,
      <<"/delrule", "-1">>, <<"/delrule", "1", "2">> }

ChatTypes == {"channel", "private"}

Commands(texts) == {CmdMsg(u, "private", t) : u \in Users, t \in texts}

ChannelCommands(word) == {CmdMsg(u, ct, <<word>>) : u \in Users, ct \in ChatTypes}

AdminInit ==
    /\ channels = {}
    /\ ADMIN_IDS \in {config_ADMIN_IDS(env) : env \in AdminEnvs}
    /\ cmd = NoCmd
    /\ mappings = <<>>
    /\ link_rules = {}
    /\ rule_seq = 0
    /\ task = Idle
    /\ rw = RwIdle

AdminNext ==
    \/ \E m \in ChannelCommands("/add_source") : add_source(m)
    \/ \E m \in ChannelCommands("/add_dest") : add_dest(m)
    \/ \E m \in ChannelCommands("/channels") : channels_cmd(m)
    \/ \E m \in Commands(MapTexts) : map_cmd(m)
    \/ \E m \in Commands(UnmapTexts) : unmap_cmd(m)
    \/ \E m \in Commands({<<"/rules">>}) : rules_cmd(m)
    \/ \E m \in Commands(AddruleTexts) : addrule_cmd(m)
    \/ \E m \in Commands(DelruleTexts) : delrule_cmd(m)

SpecAdmin == AdminInit /\ [][AdminNext]_vars

-----------------------------------------------------------------------------
(* The pipeline on its own: the bot started over a database that admin     *)
(* commands have filled before, and no command arrives                     *)

\* (channels, mappings, link_rules, rule_seq) as commands can have left them
Databases ==
    { <<ch, mp, lr[1], lr[2]>> :
        ch \in { {}, {<<1, "t", "source">>, <<2, "t", "destination">>} },
        mp \in { <<>>, <<<<1, 2>>>>, <<<<1, 2>>, <<1, 3>>>> },
        lr \in { <<{}, 0>>,
                 <<{<<1, <<"(">>, <<"b">>, None>>}, 1>>,
                 <<{<<2, <<"a">>, <<"b">>, None>>}, 2>> } }

PipeInit ==
    /\ \E db \in Databases :
          /\ channels = db[1]
          /\ mappings = db[2]
          /\ link_rules = db[3]
          /\ rule_seq = db[4]
    /\ ADMIN_IDS = config_ADMIN_IDS(<<"7">>)
    /\ cmd = NoCmd
    /\ task = Idle
    /\ rw = RwIdle

PipeNext ==
    \/ \E m \in Posts : NewPost(m)
    \/ \E m \in Posts : EditedPost(m)
    \/ OcpReadDests
    \/ OcpDispatch
    \/ EcpReadDests
    \/ EcpDispatch
    \/ MirrorReadDests
    \/ \E ok \in BOOLEAN : MirrorSend(ok)
    \/ HandlerEnd

SpecPipe == PipeInit /\ [][PipeNext]_vars

-----------------------------------------------------------------------------
(* Properties of the fan-out *)

\* the destinations the transport was called for, in call order
Attempted(t) == [i \in 1..Len(t.attempts) |-> t.attempts[i].dest]

\* how often d occurs in the sequence s
Count(s, d) == Cardinality({i \in 1..Len(s) : s[i] = d})

IsPrefix(s, t) == Len(s) <= Len(t) /\ SubSeq(t, 1, Len(s)) = s

FanoutDone(t) == t.pc = "done" /\ t.fanout

\* C1: failure isolation in the fan-out. Whatever subset of the sends raises,
\* mirror_to_dests has called send_fn for every destination it read, in
\* order, when it returns, and it returns without raising; a call already
\* made is never taken back while the handler runs.
C1_FailureIsolation ==
    [][ /\ (FanoutDone(task') => task'.exc = "none" /\ Attempted(task') = task'.dest_ids)
        /\ (task'.fanout /\ task.fanout => IsPrefix(task.attempts, task'.attempts)) ]_vars

\* a fan-out over two destinations whose first send raised and whose second
\* send was made all the same
C1_Witness ==
    /\ FanoutDone(task)
    /\ Len(task.attempts) = 2
    /\ ~task.attempts[1].ok
    /\ task.attempts[2].ok

\* C2: exactly one attempt per mapped destination. The destinations that
\* mirror_to_dests reads for source s are the d with (s,d) in the mappings
\* table, each once; a chat that occurs only as the source of a row (d,s) is
\* not among them; every send step attempts the next of them, so that the
\* fan-out ends after as many sends as there are destinations, each attempted
\* once and none twice.
C2_ExactlyOnce ==
    [][ /\ (task.pc = "mirror_dests" /\ task'.pc # "mirror_dests"
              => \A d \in Chats :
                   Count(task'.dest_ids, d) =
                     IF <<task.m.chat, d>> \in Range(mappings) THEN 1 ELSE 0)
        /\ (task'.fanout => /\ IsPrefix(Attempted(task'), task'.dest_ids)
                            /\ (task'.pc = "done") = (Len(task'.attempts) = Len(task'.dest_ids)))
        /\ (task.fanout /\ task'.fanout => task'.dest_ids = task.dest_ids)
        /\ (task.pc = "mirror_send" /\ task' # task
              => Len(task'.attempts) = Len(task.attempts) + 1) ]_vars

\* a fan-out from chat 1 that attempted chat 3 only, while the table holds
\* the row (2,1) and no row (1,2)
C2_Witness ==
    /\ FanoutDone(task)
    /\ Attempted(task) = <<3>>
    /\ <<2, 1>> \in Range(mappings)
    /\ <<1, 2>> \notin Range(mappings)

-----------------------------------------------------------------------------
(* Properties of the post handlers *)

\* the handler has returned after a fan-out over all it read, or at once
\* because there was no destination
Delivered(t) == t.nodests \/ (t.fanout /\ Attempted(t) = t.dest_ids)

\* C3: nothing in the pipeline is fatal. Whatever the rule table holds and
\* whatever the post's text or caption holds, a handler that has ended has
\* raised nothing, and it has attempted every destination it read unless
\* there was none.
C3_NothingFatal == task.pc = "done" => task.exc = "none" /\ Delivered(task)

\* the rules of the table as (pattern, URL replacement, display text), by
\* ascending id
RuleTriples(tbl) ==
    LET rows == OrderByIdAsc(tbl)
    IN  [i \in 1..Len(rows) |-> <<rows[i][2], rows[i][3], rows[i][4]>>]

\* C4: the rule sequence a handler hands to the rewriter is the table's list
\* by ascending id, each rule with its pattern, its URL replacement and its
\* optional display text.
C4_RulesHandedOver ==
    [][ task.pc \in {"ocp_rules", "ecp_rules"} /\ task'.pc \in {"mirror_dests", "done"}
          => task'.rules = RuleTriples(link_rules) ]_vars

\* no row of the table names chat as its source
NoMappedDest(chat) == \A d \in Chats : <<chat, d>> \notin Range(mappings)

\* C9: no destination is a silent no-op. A handler whose read of the
\* mappings found no destination for the post's chat returns at once: no
\* transport call, no fan-out, nothing raised; and the read itself, made
\* while no row names the chat as source, changes no table.
C9_NoDestsNoOp ==
    [][ /\ (task'.nodests => /\ task'.pc = "done"
                             /\ task'.attempts = <<>>
                             /\ ~task'.fanout
                             /\ task'.exc = "none")
        /\ (task.pc \in {"ocp_dests", "ecp_dests"} /\ task' # task
               /\ NoMappedDest(task.m.chat)
              => task'.nodests /\ UNCHANGED <<mappings, link_rules, rule_seq>>) ]_vars

\* a post with an anchor, from a chat without destination, has been handled
\* while the rule table was not empty
C9_Witness ==
    /\ task.pc = "done"
    /\ task.nodests
    /\ task.m.html = Anchor(<<"S", "a">>, <<"c">>)
    /\ link_rules # {}

\* C10: admin changes take effect on the next post. With every command
\* completed before the post starts, the handler ends having attempted
\* exactly the destinations the mappings table then holds for the post's
\* chat, and, when it read the rules, having read those the table then holds.
C10_AdminChangesNextPost ==
    [][ task.pc # "done" /\ task'.pc = "done"
          => /\ \A d \in Chats :
                  (<<task.m.chat, d>> \in Range(mappings)) = (Count(Attempted(task'), d) = 1)
             /\ (~task'.nodests => task'.rules = get_rules(link_rules)) ]_vars

-----------------------------------------------------------------------------
(* Properties of the reads a handler makes *)

\* C11: consistent snapshot per post. The destinations and the rules used
\* for a post are those its handler read first: the read mirror_to_dests
\* makes returns the destinations the handler holds, a post handed on by
\* on_edited_channel_post to on_channel_post is given the destinations and
\* the rules already read for it, whatever /map, /unmap, /addrule or
\* /delrule ran in between; and a fan-out that has ended has attempted all
\* the destinations it holds.
C11_SnapshotPerPost ==
    [][ /\ (task.pc = "mirror_dests" /\ task' # task
              => task'.dest_ids = task.dest_ids)
        /\ (task.pc = "ocp_dests" /\ task.handler = "edited" /\ task' # task
              => task'.dest_ids = task.dest_ids)
        /\ (task.pc = "ocp_rules" /\ task.handler = "edited" /\ task' # task
              => task'.rules = task.rules)
        /\ (FanoutDone(task') => Attempted(task') = task'.dest_ids) ]_vars


\* the transport operations a send closure of bot.py calls; each of them
\* posts a message of its own in the destination
NewMessageOps ==
    {"send_message", "send_video_note", "send_poll", "copy_message"}
        \cup {SendOp(k) : k \in CaptionKinds}

\* C12: the edited-post variant. An edited text post is sent to each
\* destination as a new message whose body is the marker followed by the
\* rewritten text; an edited post of another kind is dispatched as
\* on_channel_post dispatches the same post, without marker; and every
\* transport call posts a new message, none edits or deletes one.
C12_EditedPostVariant ==
    [][ /\ (task.pc = "ecp_rules" /\ task.m.content_type = "text" /\ task' # task
              => /\ task'.exc = "none"
                 /\ task'.pc = "mirror_dests"
                 /\ task'.send.op = "send_message"
                 /\ task'.send.text
                      = <<"U">> \o transform_html(task.m.html, task'.rules).val)
        /\ (task.handler = "edited" /\ task.m.content_type = "text"
               /\ task.pc # "done" /\ task'.pc = "done" /\ ~task'.nodests
              => FanoutDone(task') /\ Attempted(task') = task'.dest_ids)
        /\ (task.pc = "ocp_rules" /\ task.handler = "edited" /\ task' # task
              => LET s == ocp_send(task.m, task'.rules) IN
                 /\ task'.exc = s.exc
                 /\ (s.exc = "none" => task'.send = s.val))
        /\ (task.pc = "mirror_send" /\ task' # task
              => task.send.op \in NewMessageOps) ]_vars

\* C13: poll reconstruction. A post of type poll that has a poll is sent by
\* send_poll with the question, the options in their order, the anonymity
\* flag and the multi-answer flag of the inbound poll; the correct option
\* and the explanation are those of the inbound poll when its type is quiz,
\* and both None when it is not, whatever the inbound poll holds.
C13_PollReconstruction ==
    /\ (task.m.content_type = "poll" /\ task.m.poll # NoPoll /\ task.send # NoSend
          => task.send.op = "send_poll")
    /\ (task.send # NoSend /\ task.send.op = "send_poll"
          => LET p == task.m.poll
                 a == task.send.poll
             IN  /\ a.question = p.question
                 /\ a.options = p.options
                 /\ a.is_anonymous = p.is_anonymous
                 /\ a.allows_multiple_answers = p.allows_multiple_answers
                 /\ a.type = p.type
                 /\ (p.type = "quiz" => /\ a.correct_option_id = p.correct_option_id
                                        /\ a.explanation = p.explanation)
                 /\ (p.type # "quiz" => /\ a.correct_option_id = "None"
                                        /\ a.explanation = "None"))

\* a regular poll that came in with a correct option and an explanation has
\* been sent to a destination
C13_Witness ==
    /\ FanoutDone(task)
    /\ \E k \in 1..Len(task.attempts) : task.attempts[k].ok
    /\ task.send.op = "send_poll"
    /\ task.m.poll.type = "regular"
    /\ task.m.poll.correct_option_id = "1"
    /\ task.m.poll.explanation = "e"
    /\ task.m.poll.options = <<"y", "x">>

\* the transport operation of the dispatch table for a post
Variant(m) ==
    IF m.content_type = "text" THEN "send_message"
    ELSE IF m.content_type \in CaptionKinds THEN SendOp(m.content_type)
    ELSE IF m.content_type = "video_note" THEN "send_video_note"
    ELSE IF m.content_type = "poll" /\ m.poll # NoPoll THEN "send_poll"
    ELSE "copy_message"

Rewritten(m) == m.content_type \in {"text"} \cup CaptionKinds

\* C14: dispatch is total and exclusive. on_channel_post, for a post whose
\* chat has a destination, raises nothing and builds one send, that of the
\* dispatch table for the post's kind; the text it carries is the rewriter's
\* result for a text body or a caption of the six captioned kinds, and no
\* text otherwise; a video note carries its file; a kind outside the table,
\* and a poll post without poll, goes to copy_message; and the fan-out uses
\* that one send for every destination.
C14_DispatchTotal ==
    [][ /\ (task.pc = "ocp_rules" /\ task' # task
              => /\ task'.exc = "none"
                 /\ task'.pc = "mirror_dests"
                 /\ task'.send.op = Variant(task.m)
                 /\ task'.send.text =
                       IF Rewritten(task.m)
                       THEN transform_html(task.m.html, task'.rules).val
                       ELSE None
                 /\ (task.m.content_type = "video_note"
                       => task'.send.file = task.m.file_id))
        /\ (task.pc \in {"mirror_dests", "mirror_send"} /\ task'.pc # "idle"
              => task'.send = task.send) ]_vars

-----------------------------------------------------------------------------
(* Properties of the stores *)

\* C15: the mapping store is idempotent and holds each pair once. After any
\* sequence of add_mapping and remove_mapping calls no two rows hold the
\* same (source, destination); adding a pair the store holds and removing a
\* pair it does not hold leave it as it is; and add_mapping(s, d) adds the
\* row (s, d) and no other, so that (d, s) is there after the call only if
\* it was there before.
C15_MappingStore ==
    /\ \A i, j \in 1..Len(mappings) : mappings[i] = mappings[j] => i = j
    /\ \A p \in StorePairs :
          /\ (p \in Range(mappings) => add_mapping(mappings, p[1], p[2]) = mappings)
          /\ (p \notin Range(mappings) => remove_mapping(mappings, p[1], p[2]) = mappings)
          /\ Range(add_mapping(mappings, p[1], p[2])) = Range(mappings) \cup {p}
          /\ Range(remove_mapping(mappings, p[1], p[2])) = Range(mappings) \ {p}

\* (1,2) was added twice and (2,1) never, or it was removed: the store holds
\* (1,2) once, next to another row, and not (2,1)
C15_Witness ==
    /\ Len(mappings) = 2
    /\ <<1, 2>> \in Range(mappings)
    /\ <<2, 1>> \notin Range(mappings)

\* C16: rule order is insertion order. Over any sequence of add_link_rule
\* and remove_link_rule calls, list_link_rules after an add is the list
\* before it followed by the new rule, whose id is larger than every id
\* handed out before; after a remove it is the list before it without the
\* removed rule, the others in their order; so the surviving rules are
\* listed in the order they were added and no id comes back.
C16_RuleOrder ==
    [][ LET old == list_link_rules(link_rules)
            new == list_link_rules(link_rules')
        IN  /\ rule_seq' >= rule_seq
            /\ (rule_seq' # rule_seq
                  => /\ Len(new) = Len(old) + 1
                     /\ SubSeq(new, 1, Len(old)) = old
                     /\ new[Len(new)][1] > rule_seq
                     /\ new[Len(new)][1] = rule_seq')
            /\ (rule_seq' = rule_seq
                  => new = SelectSeq(old, LAMBDA row : row \in link_rules'))
            /\ \A i, j \in 1..Len(new) : i < j => new[i][1] < new[j][1] ]_vars

\* the first rule added is gone; the list is the second and the third, in
\* that order, and the third has a display text
C16_Witness ==
    /\ rule_seq = 3
    /\ Len(list_link_rules(link_rules)) = 2
    /\ list_link_rules(link_rules)[1][1] = 2
    /\ list_link_rules(link_rules)[2][1] = 3
    /\ list_link_rules(link_rules)[2][4] # None

\* C19: the pipeline only reads the configuration. Every step of
\* on_channel_post, on_edited_channel_post and mirror_to_dests, also one
\* that meets a rule that does not compile, raises, or has its send fail,
\* leaves the channels, the mappings and the rules as they were.
C19_PipelineReadOnly ==
    [][ task' # task
          => UNCHANGED <<channels, mappings, link_rules, rule_seq>> ]_vars

\* a post has been handled whose send to a destination failed, while the
\* one rule of the table does not compile; channels, mapping and rule are
\* still there
C19_Witness ==
    /\ FanoutDone(task)
    /\ \E k \in 1..Len(task.attempts) : ~task.attempts[k].ok
    /\ link_rules = {<<1, <<"(">>, <<"b">>, None>>}
    /\ mappings = <<<<1, 2>>, <<1, 3>>>>
    /\ channels # {}

-----------------------------------------------------------------------------
(* Properties of the admin commands *)

\* the word is not a number
NonNumeric(word) == int(word).exc # "none"

\* the command has the wrong number of arguments, or an identifier that is
\* not a number
Malformed(m) ==
    IF m.text[1] \in {"/map", "/unmap"}
    THEN Len(m.text) # 3 \/ NonNumeric(m.text[2]) \/ NonNumeric(m.text[3])
    ELSE IF m.text[1] = "/addrule" THEN Len(m.text) < 3
    ELSE IF m.text[1] = "/delrule" THEN Len(m.text) # 2 \/ NonNumeric(m.text[2])
    ELSE FALSE

\* the usage text of the command
Usage(m) ==
    IF m.text[1] = "/map" THEN "usage_map"
    ELSE IF m.text[1] = "/unmap" THEN "usage_unmap"
    ELSE IF m.text[1] = "/addrule" THEN "usage_addrule"
    ELSE "usage_delrule"

\* C18: malformed admin input changes nothing and is answered with the
\* usage. A /map, /unmap, /addrule or /delrule of an admin with the wrong
\* number of arguments or with an identifier that is not a number is
\* answered with the usage text of the command, raises nothing, and leaves
\* the channels, the mappings and the rules as they were.
C18_MalformedAnswered ==
    [][ cmd'.m # NoCmd.m /\ is_admin(cmd'.m.from_user) /\ Malformed(cmd'.m)
          => /\ cmd'.exc = "none"
             /\ cmd'.answer = Usage(cmd'.m)
             /\ UNCHANGED <<channels, mappings, link_rules, rule_seq>> ]_vars

\* C20: only admins change the configuration. A step that changes the
\* channels, the mappings or the rules is the handling of a command whose
\* sender is in ADMIN_IDS; a command of any other sender is answered "admins
\* only", raises nothing and changes none of them; and with ADMIN_IDS empty
\* no command changes any of them.
C20_OnlyAdmins ==
    [][ /\ (<<channels, mappings, link_rules, rule_seq>>'
               # <<channels, mappings, link_rules, rule_seq>>
              => cmd'.m.from_user \in ADMIN_IDS)
        /\ (cmd'.m # NoCmd.m /\ cmd'.m.from_user \notin ADMIN_IDS
              => /\ cmd'.answer = "admins_only"
                 /\ cmd'.exc = "none"
                 /\ UNCHANGED <<channels, mappings, link_rules, rule_seq>>)
        /\ (ADMIN_IDS = {}
              => UNCHANGED <<channels, mappings, link_rules, rule_seq>>) ]_vars

\* user 8, not an admin, has sent /unmap 1 2 and was refused; the mapping
\* (1,2), the channel and the rule an admin had set are still there
C20_Witness ==
    /\ ADMIN_IDS = {7}
    /\ cmd.m.from_user = 8
    /\ cmd.m.text = <<"/unmap", "1", "2">>
    /\ cmd.answer = "admins_only"
    /\ <<1, 2>> \in Range(mappings)
    /\ channels # {}
    /\ link_rules # {}

-----------------------------------------------------------------------------
(* Properties of the rewriter *)

\* the anchors of a markup from position i on, as A_TAG_RE finds them
RECURSIVE AnchorsFrom(_, _)
AnchorsFrom(s, i) ==
    IF i > Len(s) THEN <<>>
    ELSE LET m == A_TAG_RE(s, i) IN
         IF m.hit
         THEN <<[href |-> SubSeq(s, i + 1, m.q - 1),
                 text |-> SubSeq(s, m.q + 1, m.e - 1),
                 all |-> SubSeq(s, i, m.e)]>> \o AnchorsFrom(s, m.e + 1)
         ELSE AnchorsFrom(s, i + 1)

Anchors(s) == AnchorsFrom(s, 1)

\* the rule cannot be applied: its pattern does not compile or its template
\* is rejected
Skipped(rule) == ~Compiles(rule[1]) \/ TemplateError(rule[2]) # "none"

\* the rules folded in order over an href: each rule that applies is tested
\* against, and substituted into, the href as rewritten so far
RECURSIVE FoldHref(_, _, _)
FoldHref(rules, i, cur) ==
    IF i > Len(rules) THEN cur
    ELSE IF Skipped(rules[i]) THEN FoldHref(rules, i + 1, cur)
    ELSE FoldHref(rules, i + 1, SubAll(rules[i][1], rules[i][2], cur))

\* the display text of the last rule that matched the href as rewritten so
\* far and has a display text, or the text as it was
RECURSIVE FoldText(_, _, _, _)
FoldText(rules, i, cur, text) ==
    IF i > Len(rules) THEN text
    ELSE IF Skipped(rules[i]) \/ ~re_search(rules[i][1], cur).val
    THEN FoldText(rules, i + 1, cur, text)
    ELSE FoldText(rules, i + 1, SubAll(rules[i][1], rules[i][2], cur),
                  IF rules[i][3] # None THEN rules[i][3] ELSE text)

RwReturned == rw.pc = "ret" /\ rw.exc = "none"

\* both passes ran
RwRewrote == RwReturned /\ rw.html # <<>> /\ rw.html # None /\ rw.rules # <<>>

\* C5: cumulative href rewriting. The output has the anchors of the input,
\* and the href of each is the fold of the rules, in order, over the input
\* href: each rule tested against and substituted into the current href once.
C5_CumulativeHref ==
    RwReturned =>
        LET in == Anchors(rw.html)
            out == Anchors(rw.out)
        IN  /\ Len(out) = Len(in)
            /\ \A k \in 1..Len(in) : out[k].href = FoldHref(rw.rules, 1, in[k].href)

\* C6: the last matching rule wins for the display text. The text of each
\* output anchor is the display text of the last rule, in order, that matched
\* the current href and has one, and the input text when there is no such rule.
C6_LastTextWins ==
    RwReturned =>
        LET in == Anchors(rw.html)
            out == Anchors(rw.out)
        IN  /\ Len(out) = Len(in)
            /\ \A k \in 1..Len(in) :
                  out[k].text = FoldText(rw.rules, 1, in[k].href, in[k].text)

\* no rule that can be applied matches the href
MatchesNoRule(rules, href) ==
    \A i \in 1..Len(rules) : Skipped(rules[i]) \/ ~re_search(rules[i][1], href).val

\* C7: the raw-URL pass does not re-enter anchors. The anchors after the
\* raw-URL pass are, token for token, the anchors the anchor pass produced,
\* and an anchor whose href matches no rule is emitted as it came in.
C7_RawPassKeepsAnchors ==
    RwRewrote =>
        LET in == Anchors(rw.html)
            mid == Anchors(rw.mid)
            out == Anchors(rw.out)
        IN  /\ Len(out) = Len(mid)
            /\ \A k \in 1..Len(mid) : out[k].all = mid[k].all
            /\ \A k \in 1..Len(in) :
                  MatchesNoRule(rw.rules, in[k].href) => out[k].all = in[k].all

\* the rule list without the rules that cannot be applied
WithoutSkipped(rules) == SelectSeq(rules, LAMBDA rule : ~Skipped(rule))

\* C8: invalid rules are skipped, not fatal. The call raises nothing, and its
\* result is the result for the rule list with the rules left out whose
\* pattern does not compile or whose substitution raises.
C8_InvalidRulesSkipped ==
    rw.pc = "ret" =>
        /\ rw.exc = "none"
        /\ rw.out = replace_links_in_html(rw.html, WithoutSkipped(rw.rules)).val

\* C17: the identity law of the rewriter. Called with an empty or absent
\* markup, or with an empty rule list, replace_links_in_html raises nothing
\* and returns the markup as it came in, and the empty string for None.
C17_Identity ==
    rw.pc = "ret" /\ (rw.html = <<>> \/ rw.html = None \/ rw.rules = <<>>)
        => /\ rw.exc = "none"
           /\ rw.out = IF rw.html = None THEN <<>> ELSE rw.html

\* a markup with two anchors and a bare URL came back as it was from a call
\* with no rule
C17_Witness ==
    /\ rw.pc = "ret"
    /\ rw.rules = <<>>
    /\ rw.html = Anchor(<<"S", "a">>, <<"c">>) \o <<"_", "S", "b">>
    /\ rw.out = rw.html

====
